---- MODULE Spec2Model ----
(***************************************************************************)
(* Oodle1 decoder of liboodle: the range-coder bitstream (Oodle1Bitstream),*)
(* the adaptive symbol decoder (Oodle1Decoder), the LZ77 decompressor      *)
(* (Oodle1Decompressor) and the section driver                             *)
(* (GrannyFile::DecompressOodle1).                                         *)
(*                                                                         *)
(* Vectors and arrays are functions over 0..n-1, as the code indexes them. *)
(* uint32_t, uint16_t and uint8_t values keep their width (% 2^w).         *)
(* An access outside a vector of a decoder is undefined behaviour: the     *)
(* decoder's fault field records it and the decoder is followed no         *)
(* further.  The output buffer of a section is a slice of the file's data  *)
(* vector: a write past its end is not stored in it, and a read before its *)
(* start yields a byte chosen nondeterministically.                        *)
(***************************************************************************)
EXTENDS Integers, Sequences, FiniteSets, TLC

VARIABLES
    input,      \* the immutable compressed byte slice the bitstream reads
    bs,         \* Oodle1Bitstream: pos (cursor), sr, srModulus, lsb
    pc,         \* position of the running operation
    ev,         \* ghost: what the last operation was given and returned
    dec,        \* one Oodle1Decoder (decoder-level specification)
    sect,       \* section header and the nine stream header words
    drv,        \* DecompressOodle1 locals: streamIdx, headerPtr, outputOffset
    decomp,     \* the current Oodle1Decompressor
    output      \* the section's output buffer

vars == <<input, bs, pc, ev, dec, sect, drv, decomp, output>>

----------------------------------------------------------------------------
(* Unsigned arithmetic.  TLC's integers are 32-bit signed, so a uint32_t *)
(* of the bitstream (sr, srModulus) is the pair <<h, l>> of its 16-bit    *)
(* halves, value h * 2^16 + l, and the operations below are the C++       *)
(* operations on uint32_t, modulo 2^32.  Small quantities (a denominator, *)
(* a symbol index, a weight) are plain integers below 2^15.               *)

U16 == 2^16
U8  == 2^8

Min(a, b) == IF a < b THEN a ELSE b
Max(a, b) == IF a > b THEN a ELSE b

\* the uint32_t with value n, 0 <= n < 2^31
Of32(n) == <<n \div U16, n % U16>>

\* a < b, a <= b on uint32_t
Lt32(a, b) == a[1] < b[1] \/ (a[1] = b[1] /\ a[2] < b[2])
Le32(a, b) == a = b \/ Lt32(a, b)

\* a - b on uint32_t
Sub32(a, b) ==
    LET l      == a[2] - b[2]
        borrow == IF l < 0 THEN 1 ELSE 0
    IN  <<(a[1] - b[1] - borrow + 2 * U16) % U16, (l + U16) % U16>>

\* k * a on uint32_t, 0 <= k < 2^15
Mul32(k, a) ==
    LET p == k * a[2]
    IN  <<(k * a[1] + (p \div U16)) % U16, p % U16>>

\* a / d on uint32_t, 1 <= d < 2^15 (long division by halves)
Div32(a, d) ==
    LET r == a[1] % d
    IN  <<a[1] \div d, (r * U16 + a[2]) \div d>>

\* a % d on uint32_t, 1 <= d < 2^15
Mod32(a, d) == ((a[1] % d) * U16 + a[2]) % d

\* (a << 8) | c on uint32_t, 0 <= c < 256
Shl8Or(a, c) ==
    LET l == a[2] * U8 + c
    IN  <<(a[1] * U8 + (l \div U16)) % U16, l % U16>>

\* min(a / s, top) for uint32_t a, s with s > 0 and 0 <= top < 2^15: the
\* largest q in lo..hi with q * s <= a
RECURSIVE QuotientUpTo(_, _, _, _)
QuotientUpTo(a, s, lo, hi) ==
    IF lo >= hi THEN lo
    ELSE LET mid == (lo + hi + 1) \div 2
         IN  IF Le32(Mul32(mid, s), a)
             THEN QuotientUpTo(a, s, mid, hi)
             ELSE QuotientUpTo(a, s, lo, mid - 1)

----------------------------------------------------------------------------
(* Bounds of the explored inputs *)

\* number of freely chosen leading bytes of the compressed slice
PrefixLen == 1
\* number of bitstream operations the bitstream-level harness performs
MaxBsOps == 3
\* number of Decode calls the decoder-level harness performs
MaxDecodes == 520

\* byte values the freely chosen bytes are drawn from
ByteSet == {0, 85, 128, 255}

\* the slice continues with a two-byte pattern repeated to its end
Fillers ==
    {<<0, 0>>, <<255, 255>>, <<181, 103>>, <<115, 161>>, <<1, 0>>, <<4, 0>>,
     <<237, 0>>, <<241, 0>>}

\* the byte at 0-based offset p of the slice; past the slice's end (p >= len)
\* the read is out of bounds and yields whatever memory holds there, which
\* this model takes to continue the pattern chosen at Init
InputAt(in, p) ==
    IF p < Len(in.prefix) THEN in.prefix[p + 1]
    ELSE in.filler[((p - Len(in.prefix)) % Len(in.filler)) + 1]

Inputs(lens) ==
    { [prefix |-> p, filler |-> f, len |-> n] :
        p \in UNION { [1..k -> ByteSet] : k \in 0..PrefixLen },
        f \in Fillers, n \in lens }

----------------------------------------------------------------------------
(* Oodle1Bitstream, include/oodle/Oodle1.h *)

\* Oodle1Bitstream(const uint8_t *input_)
BsConstruct(in) ==
    [pos       |-> 1,
     sr        |-> Of32(InputAt(in, 0) \div 2),
     lsb       |-> InputAt(in, 0) % 2,
     srModulus |-> Of32(128),
     over      |-> (in.len < 1)]

\* one iteration of Ingest's loop body:
\* sr = (((sr << 1) | lsb) << 7) | (b >> 1); lsb = b & 1; srModulus <<= 8
IngestStep(in, b) ==
    LET byte == InputAt(in, b.pos)
    IN  [pos       |-> b.pos + 1,
         sr        |-> Shl8Or(b.sr, b.lsb * 128 + (byte \div 2)),
         lsb       |-> byte % 2,
         srModulus |-> Shl8Or(b.srModulus, 0),
         over      |-> (b.over \/ b.pos >= in.len)]

\* Ingest whose loop runs while srModulus < 0x800000
RECURSIVE IngestStrict(_, _)
IngestStrict(in, b) ==
    IF Lt32(b.srModulus, <<128, 0>>) THEN IngestStrict(in, IngestStep(in, b)) ELSE b

\* while (srModulus <= 0x800000) { ... }
RECURSIVE Ingest(_, _)
Ingest(in, b) ==
    IF Le32(b.srModulus, <<128, 0>>) THEN Ingest(in, IngestStep(in, b)) ELSE b

\* Peek(one): the bitstream after Ingest, and z = min(sr / scale, one - 1)
Peek(in, b, one) ==
    LET b1    == Ingest(in, b)
        scale == Div32(b1.srModulus, one)
    IN  [bs |-> b1, z |-> QuotientUpTo(b1.sr, scale, 0, one - 1)]

\* Consume without the top-slot rule: the range always becomes spanZ * scale
ConsumeNoTopSlot(b, minZ, spanZ, one) ==
    LET scale   == Div32(b.srModulus, one)
        scaledZ == Mul32(minZ, scale)
    IN  [b EXCEPT !.sr = Sub32(b.sr, scaledZ),
                  !.srModulus = Mul32(spanZ, scale)]

\* Consume(minZ, spanZ, one); one - spanZ wraps to a large uint32_t when
\* spanZ > one
Consume(b, minZ, spanZ, one) ==
    LET scale   == Div32(b.srModulus, one)
        scaledZ == Mul32(minZ, scale)
        inner   == IF spanZ <= one THEN minZ < one - spanZ ELSE TRUE
    IN  [b EXCEPT !.sr = Sub32(b.sr, scaledZ),
                  !.srModulus = IF inner
                                THEN Mul32(spanZ, scale)
                                ELSE Sub32(b.srModulus, scaledZ)]

\* Get without the top-slot rule: the range always becomes scale
GetNoTopSlot(in, b, one) ==
    LET b1      == Ingest(in, b)
        scale   == Div32(b1.srModulus, one)
        z       == QuotientUpTo(b1.sr, scale, 0, one - 1)
    IN  [bs |-> [b1 EXCEPT !.sr = Sub32(b1.sr, Mul32(z, scale)),
                           !.srModulus = scale],
         z  |-> z]

\* Get(one): the bitstream after the call, and z
Get(in, b, one) ==
    LET b1      == Ingest(in, b)
        scale   == Div32(b1.srModulus, one)
        z       == QuotientUpTo(b1.sr, scale, 0, one - 1)
        scaledZ == Mul32(z, scale)
    IN  [bs |-> [b1 EXCEPT !.sr = Sub32(b1.sr, scaledZ),
                           !.srModulus = IF z < one - 1
                                         THEN scale
                                         ELSE Sub32(b1.srModulus, scaledZ)],
         z  |-> z]

\* the number of passes Ingest's loop makes from b
RECURSIVE IngestIterations(_, _)
IngestIterations(in, b) ==
    IF Le32(b.srModulus, <<128, 0>>)
    THEN 1 + IngestIterations(in, IngestStep(in, b))
    ELSE 0

\* no pass of Ingest's loop from b shifts a set bit out of sr or srModulus:
\* both are below 2^24 when they are shifted left by 8
RECURSIVE IngestExact(_, _)
IngestExact(in, b) ==
    IF Le32(b.srModulus, <<128, 0>>)
    THEN /\ b.sr[1] < U8
         /\ b.srModulus[1] < U8
         /\ IngestExact(in, IngestStep(in, b))
    ELSE TRUE

----------------------------------------------------------------------------
(* Values shared by the specifications *)

\* Oodle1Decoder::One
One == 16384

\* a default-constructed Oodle1Decoder
DecoderNew ==
    [usedSymbolCount     |-> 0,
     symbols             |-> [i \in {} |-> 0],
     symbolWeights       |-> [i \in {} |-> 0],
     symbolOccurrences   |-> [i \in {} |-> 0],
     totalOccurrence     |-> 0,
     highestLearnedSymbol    |-> 0,
     highestNormalizedSymbol |-> 0,
     nextRenormWeight    |-> 0,
     decayThreshold      |-> 0,
     rapidRenormInterval |-> 0,
     renormInterval      |-> 0,
     fault               |-> "none"]

\* values of the variables a specification does not use
NoSect   == [memSize |-> 0, stream0Stop |-> 0, stream1Stop |-> 0, words |-> <<>>]
NoDrv    == [streamIdx |-> 0, headerPtr |-> 0, outputOffset |-> 0]
NoDecomp == [windowSize |-> 0, litAlphabetSize |-> 0, offset1AlphabetSize |-> 0,
             bytesOutput |-> 0, lastRepeatCode |-> 0, header |-> <<>>,
             decoders |-> <<>>]
NoOutput == <<>>

----------------------------------------------------------------------------
(* Oodle1Decoder, src/Oodle1.cpp.  The field fault is a ghost: "none"     *)
(* until an operation of the decoder leaves a vector or divides by zero,  *)
(* and then the name of that undefined step; the decoder's fields are     *)
(* then as they were just before it.                                      *)

\* std::vector::resize(n): the old elements kept, new ones value-initialized
Resize(v, n) == [i \in 0..(n - 1) |-> IF i \in DOMAIN v THEN v[i] ELSE 0]

\* std::fill(v.begin() + from, v.end(), x)
FillFrom(v, from, x) == [i \in DOMAIN v |-> IF i >= from THEN x ELSE v[i]]

\* partial sums of a vector of occurrences over 0..hi
RECURSIVE SumTo(_, _)
SumTo(v, hi) == IF hi < 0 THEN 0 ELSE v[hi] + SumTo(v, hi - 1)

\* min((alphabetSize - 1) * k, cap) on uint32_t: alphabetSize - 1 wraps to
\* 2^32 - 1 when alphabetSize is 0
MinScaled(alphabetSize, k, cap) ==
    IF alphabetSize = 0 THEN cap ELSE Min((alphabetSize - 1) * k, cap)

\* Initialize whose renormInterval is clamped from above last:
\* min(max(128, (alphabetSize - 1) * 2), decayThreshold / 2 - 32)
InitializeUpperLast(d, alphabetSize, uniqueSymbols) ==
    LET n  == alphabetSize + 2
        dt == Max(256, MinScaled(alphabetSize, 32, 15160))
    IN  [d EXCEPT
           !.usedSymbolCount     = uniqueSymbols,
           !.symbols             = Resize(d.symbols, n),
           !.symbolWeights       = [i \in 0..(n - 1) |-> IF i = 0 THEN 0 ELSE One],
           !.symbolOccurrences   = [Resize(d.symbolOccurrences, n) EXCEPT ![0] = 4],
           !.totalOccurrence     = 4,
           !.nextRenormWeight    = 8,
           !.decayThreshold      = dt,
           !.rapidRenormInterval = 4,
           !.renormInterval      =
               Min(Max(128, IF alphabetSize = 0 THEN 2 * U16 ELSE (alphabetSize - 1) * 2),
                   (dt \div 2) - 32)]

\* Oodle1Decoder::Initialize(alphabetSize, uniqueSymbols)
Initialize(d, alphabetSize, uniqueSymbols) ==
    LET n  == alphabetSize + 2
        dt == Max(256, MinScaled(alphabetSize, 32, 15160))
    IN  [d EXCEPT
           !.usedSymbolCount     = uniqueSymbols,
           !.symbols             = Resize(d.symbols, n),
           !.symbolWeights       = [i \in 0..(n - 1) |-> IF i = 0 THEN 0 ELSE One],
           !.symbolOccurrences   = [Resize(d.symbolOccurrences, n) EXCEPT ![0] = 4],
           !.totalOccurrence     = 4,
           !.nextRenormWeight    = 8,
           !.decayThreshold      = dt,
           !.rapidRenormInterval = 4,
           !.renormInterval      = Max(128, MinScaled(alphabetSize, 2, (dt \div 2) - 32))]

\* the eviction loop without line 59: the occurrence of the top slot moves
\* down, its symbol does not
RECURSIVE EvictAtCountOnly(_, _)
EvictAtCountOnly(d, idx) ==
    LET hls == d.highestLearnedSymbol
    IN  IF d.symbolOccurrences[idx] <= 1
        THEN IF idx >= hls
             THEN [d EXCEPT !.symbolOccurrences[idx] = 0,
                            !.highestLearnedSymbol = hls - 1]
             ELSE EvictAtCountOnly([d EXCEPT
                             !.symbolOccurrences[idx] = d.symbolOccurrences[hls],
                             !.symbolOccurrences[hls] = 0,
                             !.highestLearnedSymbol = hls - 1], idx)
        ELSE d

\* Decay, lines 51-62: while (symbolOccurrences[idx] <= 1) { ... }
RECURSIVE EvictAt(_, _)
EvictAt(d, idx) ==
    LET hls == d.highestLearnedSymbol
    IN  IF d.symbolOccurrences[idx] <= 1
        THEN IF idx >= hls
             THEN [d EXCEPT !.symbolOccurrences[idx] = 0,
                            !.highestLearnedSymbol = hls - 1]
             ELSE EvictAt([d EXCEPT
                             !.symbolOccurrences[idx] = d.symbolOccurrences[hls],
                             !.symbolOccurrences[hls] = 0,
                             !.symbols[idx] = d.symbols[hls],
                             !.highestLearnedSymbol = hls - 1], idx)
        ELSE d

\* Decay, lines 50-72: the for loop from idx on, with the running maximum
RECURSIVE DecayLoop(_, _, _, _)
DecayLoop(d, idx, highestWeight, highestIndex) ==
    IF idx > d.highestLearnedSymbol
    THEN [d |-> d, highestWeight |-> highestWeight, highestIndex |-> highestIndex]
    ELSE LET d1 == EvictAt(d, idx)
         IN  IF d1.symbolOccurrences[idx] = 0
             THEN [d |-> d1, highestWeight |-> highestWeight,
                   highestIndex |-> highestIndex]
             ELSE LET o  == d1.symbolOccurrences[idx] \div 2
                      d2 == [d1 EXCEPT !.symbolOccurrences[idx] = o,
                                       !.totalOccurrence = @ + o]
                  IN  IF o > highestWeight
                      THEN DecayLoop(d2, idx + 1, o, idx)
                      ELSE DecayLoop(d2, idx + 1, highestWeight, highestIndex)

\* Decay without lines 73-76: the slots stay where the loop left them
NoSwapToTop(d, highestWeight, highestIndex) == d

\* Decay, lines 73-76: the most frequent slot is swapped to the top
SwapToTop(d, highestWeight, highestIndex) ==
    LET hls == d.highestLearnedSymbol
    IN  IF highestWeight # 0 /\ highestIndex # hls
        THEN [d EXCEPT
                !.symbolOccurrences[hls] = d.symbolOccurrences[highestIndex],
                !.symbolOccurrences[highestIndex] = d.symbolOccurrences[hls],
                !.symbols[hls] = d.symbols[highestIndex],
                !.symbols[highestIndex] = d.symbols[hls]]
        ELSE d

\* Decay, lines 77-80: the escape slot is kept alive
RestoreEscape(d) ==
    IF d.highestLearnedSymbol # d.usedSymbolCount /\ d.symbolOccurrences[0] = 0
    THEN [d EXCEPT !.symbolOccurrences[0] = 1, !.totalOccurrence = @ + 1]
    ELSE d

\* Oodle1Decoder::Decay()
Decay(d) ==
    LET d0 == [d EXCEPT !.symbolOccurrences[0] = @ \div 2,
                        !.totalOccurrence = d.symbolOccurrences[0] \div 2]
        r  == DecayLoop(d0, 1, 0, 0)
        d3 == RestoreEscape(SwapToTop(r.d, r.highestWeight, r.highestIndex))
    IN  [d3 EXCEPT !.symbolWeights =
                      FillFrom(@, d3.highestLearnedSymbol + 1, One)]

\* Renormalize, lines 87-91: the cumulative weights of slots 1..HLS
RECURSIVE CumulativeWeights(_, _, _, _, _)
CumulativeWeights(w, d, quanta, idx, accumulator) ==
    IF idx > d.highestLearnedSymbol THEN w
    ELSE CumulativeWeights([w EXCEPT ![idx] = accumulator % U16], d, quanta,
            idx + 1, accumulator + ((d.symbolOccurrences[idx] * quanta) \div 8))

\* the schedule with lines 93 and 94 exchanged: nextRenormWeight is set from
\* rapidRenormInterval before it is doubled
ScheduleBeforeDoubling(d) ==
    IF d.rapidRenormInterval * 2 < d.renormInterval
    THEN [d EXCEPT !.rapidRenormInterval = @ * 2,
                   !.nextRenormWeight = d.totalOccurrence + d.rapidRenormInterval]
    ELSE [d EXCEPT !.nextRenormWeight = d.totalOccurrence + d.renormInterval]

\* Renormalize, lines 92-97: the next renormalization is scheduled
Schedule(d) ==
    IF d.rapidRenormInterval * 2 < d.renormInterval
    THEN [d EXCEPT !.rapidRenormInterval = @ * 2,
                   !.nextRenormWeight = d.totalOccurrence + d.rapidRenormInterval * 2]
    ELSE [d EXCEPT !.nextRenormWeight = d.totalOccurrence + d.renormInterval]

\* Oodle1Decoder::Renormalize()
Renormalize(d) ==
    IF d.totalOccurrence = 0 THEN [d EXCEPT !.fault = "div0"]
    ELSE LET quanta == 131072 \div d.totalOccurrence
             w == CumulativeWeights([d.symbolWeights EXCEPT ![0] = 0], d, quanta, 1,
                                    (d.symbolOccurrences[0] * quanta) \div 8)
         IN  [Schedule(d) EXCEPT
                !.highestNormalizedSymbol = d.highestLearnedSymbol,
                !.symbolWeights = FillFrom(w, d.highestLearnedSymbol + 1, One)]

\* Decode, lines 103-108
NeedsRenorm(d) == d.totalOccurrence >= d.nextRenormWeight
NeedsDecay(d)  == NeedsRenorm(d) /\ d.totalOccurrence >= d.decayThreshold

\* Decode, lines 110-115: the slot the linear scan stops at, or -1 when the
\* scan reads past the end of symbolWeights
RECURSIVE ScanFrom(_, _, _)
ScanFrom(d, z, symbolIdx) ==
    IF symbolIdx <= d.highestNormalizedSymbol
    THEN IF (symbolIdx + 1) \notin DOMAIN d.symbolWeights THEN -1
         ELSE IF d.symbolWeights[symbolIdx + 1] > z THEN symbolIdx
         ELSE ScanFrom(d, z, symbolIdx + 1)
    ELSE IF (symbolIdx + 1) \notin DOMAIN d.symbolWeights THEN -1 ELSE symbolIdx

\* the hit with an 8-bit occurrence slot: symbolOccurrences[idx]++ wraps at 256
HitByteSlot(d, idx) ==
    [d EXCEPT !.symbolOccurrences[idx] = (@ + 1) % U8,
              !.totalOccurrence = @ + 1]

\* symbolOccurrences[idx]++ (uint16_t); totalOccurrence++
Hit(d, idx) ==
    [d EXCEPT !.symbolOccurrences[idx] = (@ + 1) % U16,
              !.totalOccurrence = @ + 1]

\* symbolOccurrences[idx] += 2; totalOccurrence += 2
Boost(d, idx) ==
    [d EXCEPT !.symbolOccurrences[idx] = (@ + 2) % U16,
              !.totalOccurrence = @ + 2]

\* Decode, lines 136-139: the escape slot is retired
Retire(d) ==
    IF d.highestLearnedSymbol = d.usedSymbolCount
    THEN [d EXCEPT !.totalOccurrence = @ - d.symbolOccurrences[0],
                   !.symbolOccurrences[0] = 0]
    ELSE d

DecodeResult(d, b, sym, branch) ==
    [d |-> d, bs |-> b, sym |-> sym, branch |-> branch]

\* Decode, lines 131-140: a new symbol is read and given the next slot
NewSymbol(in, b, d, alphabetSize) ==
    LET d1 == [d EXCEPT !.highestLearnedSymbol = @ + 1]
        hls == d1.highestLearnedSymbol
    IN  IF alphabetSize = 0
        THEN DecodeResult([d1 EXCEPT !.fault = "div0"], b, 0, "fault")
        ELSE LET g == Get(in, b, alphabetSize)
             IN  IF hls \notin DOMAIN d1.symbols
                 THEN DecodeResult([d1 EXCEPT !.fault = "oob_write"], g.bs, g.z, "fault")
                 ELSE DecodeResult(
                        Retire(Boost([d1 EXCEPT !.symbols[hls] = g.z % U8], hls)),
                        g.bs, g.z,
                        IF hls = d1.usedSymbolCount THEN "retire" ELSE "new")

\* Decode, lines 122-130: a symbol learned since the last renormalization
Escape(in, b, d, alphabetSize) ==
    IF d.highestLearnedSymbol # d.highestNormalizedSymbol
    THEN LET g == Get(in, b, 2)
         IN  IF g.z # 0
             THEN LET g2 == Get(in, g.bs,
                                d.highestLearnedSymbol - d.highestNormalizedSymbol)
                      symbolIdx == g2.z + d.highestNormalizedSymbol + 1
                  IN  DecodeResult(Boost(d, symbolIdx), g2.bs,
                                   d.symbols[symbolIdx], "pending")
             ELSE NewSymbol(in, g.bs, d, alphabetSize)
    ELSE NewSymbol(in, b, d, alphabetSize)

\* Decode, lines 109-141: after the renormalization check
DecodeBody(in, b, d, alphabetSize) ==
    LET p == Peek(in, b, One)
        symbolIdx == ScanFrom(d, p.z, 0)
    IN  IF symbolIdx < 0
        THEN DecodeResult([d EXCEPT !.fault = "oob_read"], p.bs, 0, "fault")
        ELSE LET w  == d.symbolWeights
                 b2 == Consume(p.bs, w[symbolIdx], w[symbolIdx + 1] - w[symbolIdx], One)
                 d1 == Hit(d, symbolIdx)
             IN  IF symbolIdx # 0
                 THEN DecodeResult(d1, b2, d1.symbols[symbolIdx], "known")
                 ELSE Escape(in, b2, d1, alphabetSize)

\* Oodle1Decoder::Decode(bs, alphabetSize), the whole call
Decode(in, b, d, alphabetSize) ==
    LET d1 == IF NeedsDecay(d) THEN Decay(d) ELSE d
        d2 == IF NeedsRenorm(d) THEN Renormalize(d1) ELSE d
    IN  IF d2.fault # "none" THEN DecodeResult(d2, b, 0, "fault")
        ELSE DecodeBody(in, b, d2, alphabetSize)

----------------------------------------------------------------------------
(* Oodle1Decompressor, src/Oodle1.cpp.  A header word is a uint32_t, the   *)
(* pair of its 16-bit halves.  The 4 + 65 + 1 + 256 + 1 decoders are kept  *)
(* as the function decoders from the decoders used so far to their state;  *)
(* a decoder not used yet is in the state Initialize left it in, which     *)
(* SeededDecoder computes from the header words.                           *)

\* header >> 9, header & 0x1FF, header >> 19, header >> 24
Shr9(w)   == w[1] * 128 + (w[2] \div 512)
And1FF(w) == w[2] % 512
Shr19(w)  == w[1] \div 8
Shr24(w)  == w[1] \div U8

\* Initialize, lines 153-161: repLens after the groups before groupIdx have
\* shifted it (repLens <<= 8 once per group)
RECURSIVE RepLens(_, _)
RepLens(header2, groupIdx) ==
    IF groupIdx = 0 THEN header2 ELSE Shl8Or(RepLens(header2, groupIdx - 1), 0)

\* the (alphabetSize, uniqueSymbols) Oodle1Decompressor::Initialize passes to
\* the decoder id = <<kind, index>>
SeedOf(header, id) ==
    LET windowSize == Shr9(header[1])
        offset1AlphabetSize == Min(4, windowSize + 1)
        offset4AlphabetSize == Min(256, (windowSize \div 4) + 1)
    IN  CASE id[1] = "lit"     -> <<And1FF(header[1]), And1FF(header[2])>>
          [] id[1] = "len"     -> <<65, Shr24(RepLens(header[3],
                                        IF id[2] = 64 THEN 4 ELSE id[2] \div 16))>>
          [] id[1] = "off1"    -> <<offset1AlphabetSize, offset1AlphabetSize>>
          [] id[1] = "off4"    -> <<offset4AlphabetSize, offset4AlphabetSize>>
          [] id[1] = "off1024" -> <<(windowSize \div 1024) + 1, Shr19(header[2]) + 1>>

SeededDecoder(header, id) ==
    Initialize(DecoderNew, SeedOf(header, id)[1], SeedOf(header, id)[2])

\* Oodle1Decompressor(bs) followed by Initialize(header): header is the
\* triple of words at headerPtr
DecompInitialize(header) ==
    [windowSize          |-> Shr9(header[1]),
     litAlphabetSize     |-> And1FF(header[1]),
     offset1AlphabetSize |-> Min(4, Shr9(header[1]) + 1),
     bytesOutput         |-> 0,
     lastRepeatCode      |-> 0,
     header              |-> header,
     decoders            |-> [id \in {} |-> DecoderNew]]

DecoderAt(dc, id) ==
    IF id \in DOMAIN dc.decoders THEN dc.decoders[id]
    ELSE SeededDecoder(dc.header, id)

PutDecoder(dc, id, d) ==
    [dc EXCEPT !.decoders =
        [i \in (DOMAIN dc.decoders) \cup {id} |->
            IF i = id THEN d ELSE dc.decoders[i]]]

\* a length table in which code 61 still continues the run c + 1 and the
\* long lengths start at code 62
RepeatLengthTableLinear ==
    [c \in 1..65 |-> IF c <= 62 THEN (IF c = 1 THEN 0 ELSE c)
                     ELSE <<128, 192, 256>>[c - 62]]

\* Oodle1Decompressor::RepeatLengthTable
RepeatLengthTable ==
    << 0,  2,  3,  4,  5,   6,   7,   8,
       9, 10, 11, 12, 13,  14,  15,  16,
      17, 18, 19, 20, 21,  22,  23,  24,
      25, 26, 27, 28, 29,  30,  31,  32,
      33, 34, 35, 36, 37,  38,  39,  40,
      41, 42, 43, 44, 45,  46,  47,  48,
      49, 50, 51, 52, 53,  54,  55,  56,
      57, 58, 59, 60, 61, 128, 192, 256, 512 >>

\* output[dst] = v; a write outside the buffer is not stored
StoreByte(out, dst, v) ==
    IF dst \in DOMAIN out THEN [out EXCEPT ![dst] = v] ELSE out

\* *output = *input for one byte: out[src] is read and written to out[dst].
\* A read outside the buffer yields wild; a write outside it is not stored.
CopyByte(out, dst, src, wild) ==
    LET v == IF src \in DOMAIN out THEN out[src] ELSE wild
    IN  IF dst \in DOMAIN out THEN [out EXCEPT ![dst] = v] ELSE out

\* a block copy: every byte is read from the buffer as it was before the call
RepeatBlock(out, p, offset, length, wild) ==
    [i \in DOMAIN out |->
        IF i >= p /\ i < p + length
        THEN IF (i - offset) \in DOMAIN out THEN out[i - offset] ELSE wild
        ELSE out[i]]

\* Repeat(output, offset, length) with output = &buffer[p]: the bytes are
\* copied forward one at a time.  Once p has left the buffer no later write
\* of the loop is stored, so the loop is followed only up to there.
RECURSIVE Repeat(_, _, _, _, _)
Repeat(out, p, offset, length, wild) ==
    IF length = 0 \/ p \notin DOMAIN out THEN out
    ELSE Repeat(CopyByte(out, p, p - offset, wild), p + 1, offset, length - 1, wild)

DecompressResult(dc, b, out, ret, kind, offset, fault) ==
    [dc |-> dc, bs |-> b, out |-> out, ret |-> ret, kind |-> kind,
     offset |-> offset, fault |-> fault]

\* Decompress, lines 189-191: the literal r decoded is stored
StoreLiteral(dc, out, p, id, r) ==
    IF r.d.fault # "none"
    THEN DecompressResult(PutDecoder(dc, id, r.d), r.bs, out, 0, "fault", 0,
                          r.d.fault)
    ELSE DecompressResult(
            [PutDecoder(dc, id, r.d) EXCEPT !.bytesOutput = @ + 1],
            r.bs, StoreByte(out, p, r.sym % U8), 1, "literal", 0, "none")

\* Decompress, lines 188-191: a literal
Literal(in, b, dc, out, p) ==
    StoreLiteral(dc, out, p, <<"lit", dc.bytesOutput % 4>>,
        Decode(in, b, DecoderAt(dc, <<"lit", dc.bytesOutput % 4>>),
               dc.litAlphabetSize))

\* Decompress, lines 198-201: the offset is assembled from off1 - 1, off1k
\* and the result r4 of the off4 decoder, and the bytes are repeated
RepeatAt(dc, out, p, len, wild, off1, off1k, r4) ==
    IF r4.d.fault # "none"
    THEN DecompressResult(PutDecoder(dc, <<"off4", off1k>>, r4.d), r4.bs, out, 0,
                          "fault", 0, r4.d.fault)
    ELSE DecompressResult(
            [PutDecoder(dc, <<"off4", off1k>>, r4.d) EXCEPT !.bytesOutput = @ + len],
            r4.bs,
            Repeat(out, p, (off1k * 1024) + (r4.sym * 4) + (off1 + 1), len, wild),
            len, "repeat", (off1k * 1024) + (r4.sym * 4) + (off1 + 1), "none")

\* Decompress, line 197: off4Decoders[off1k] decodes, r1k the result of the
\* off1024 decoder; off4Decoders has 256 elements
Offset4(in, dc, out, p, len, wild, effectiveWindow, off1, r1k) ==
    IF r1k.d.fault # "none"
    THEN DecompressResult(PutDecoder(dc, <<"off1024", 0>>, r1k.d), r1k.bs, out, 0,
                          "fault", 0, r1k.d.fault)
    ELSE IF r1k.sym > 255
    THEN DecompressResult(PutDecoder(dc, <<"off1024", 0>>, r1k.d), r1k.bs, out, 0,
                          "fault", 0, "oob_read")
    ELSE RepeatAt(PutDecoder(dc, <<"off1024", 0>>, r1k.d), out, p, len, wild,
                  off1, r1k.sym,
                  Decode(in, r1k.bs,
                         DecoderAt(PutDecoder(dc, <<"off1024", 0>>, r1k.d),
                                   <<"off4", r1k.sym>>),
                         Min(256, (effectiveWindow \div 4) + 1)))

\* Decompress, line 196: off1024Decoder decodes, r1 the result of off1Decoder
Offset1024(in, dc, out, p, len, wild, effectiveWindow, r1) ==
    IF r1.d.fault # "none"
    THEN DecompressResult(PutDecoder(dc, <<"off1", 0>>, r1.d), r1.bs, out, 0,
                          "fault", 0, r1.d.fault)
    ELSE Offset4(in, PutDecoder(dc, <<"off1", 0>>, r1.d), out, p, len, wild,
                 effectiveWindow, r1.sym,
                 Decode(in, r1.bs, DecoderAt(dc, <<"off1024", 0>>),
                        (effectiveWindow \div 1024) + 1))

\* Decompress, lines 193-201: a back-reference
BackReference(in, b, dc, out, p, lenCode, wild) ==
    Offset1024(in, dc, out, p, RepeatLengthTable[lenCode + 1], wild,
               Min(dc.windowSize, dc.bytesOutput),
               Decode(in, b, DecoderAt(dc, <<"off1", 0>>), dc.offset1AlphabetSize))

\* Decompress in which a back-reference leaves lastRepeatCode at 0: the call
\* after it decodes its length code with lenDecoders[0]
LengthCodeResetting(in, dc, out, p, wild, id, r) ==
    IF r.d.fault # "none"
    THEN DecompressResult(PutDecoder(dc, id, r.d), r.bs, out, 0, "fault", 0,
                          r.d.fault)
    ELSE IF r.sym = 0
    THEN Literal(in, r.bs, [PutDecoder(dc, id, r.d) EXCEPT !.lastRepeatCode = 0],
                 out, p)
    ELSE BackReference(in, r.bs,
                       [PutDecoder(dc, id, r.d) EXCEPT !.lastRepeatCode = 0],
                       out, p, r.sym, wild)

\* Decompress, lines 186-192: lastRepeatCode takes the length code r decoded
\* and the call branches on it
LengthCode(in, dc, out, p, wild, id, r) ==
    IF r.d.fault # "none"
    THEN DecompressResult(PutDecoder(dc, id, r.d), r.bs, out, 0, "fault", 0,
                          r.d.fault)
    ELSE IF r.sym = 0
    THEN Literal(in, r.bs, [PutDecoder(dc, id, r.d) EXCEPT !.lastRepeatCode = 0],
                 out, p)
    ELSE BackReference(in, r.bs,
                       [PutDecoder(dc, id, r.d) EXCEPT !.lastRepeatCode = r.sym],
                       out, p, r.sym, wild)

\* Oodle1Decompressor::Decompress(output) with output = &buffer[p]
Decompress(in, b, dc, out, p, wild) ==
    LengthCode(in, dc, out, p, wild, <<"len", dc.lastRepeatCode>>,
        Decode(in, b, DecoderAt(dc, <<"len", dc.lastRepeatCode>>), 65))

----------------------------------------------------------------------------
(* Bitstream-level specification: a caller that uses the bitstream the way *)
(* Decode does, Get(one) or Peek(one) followed by a Consume of a slot that *)
(* holds the peeked z.                                                     *)

\* denominators the callers pass: flag reads, small alphabets, One
Ones == {1, 2, 3, One}

\* lengths of the compressed slice
SliceLens == {4, 64}

BsEvent(op, one, z, minZ, spanZ, pre, n) ==
    [op |-> op, one |-> one, z |-> z, minZ |-> minZ, spanZ |-> spanZ,
     pre |-> pre, n |-> n]

InitBS ==
    /\ input \in Inputs(SliceLens)
    /\ bs = BsConstruct(input)
    /\ pc = "idle"
    /\ ev = BsEvent("construct", 0, 0, 0, 0, BsConstruct(input), 0)
    /\ dec = DecoderNew
    /\ sect = NoSect
    /\ drv = NoDrv
    /\ decomp = NoDecomp
    /\ output = NoOutput

BsGet ==
    /\ pc = "idle"
    /\ ev.n < MaxBsOps
    /\ \E one \in Ones :
         LET r == Get(input, bs, one)
         IN  /\ bs' = r.bs
             /\ ev' = BsEvent("Get", one, r.z, r.z, 1, bs, ev.n + 1)
    /\ UNCHANGED <<input, pc, dec, sect, drv, decomp, output>>

BsPeek ==
    /\ pc = "idle"
    /\ ev.n < MaxBsOps
    /\ \E one \in Ones :
         LET r == Peek(input, bs, one)
         IN  /\ bs' = r.bs
             /\ ev' = BsEvent("Peek", one, r.z, 0, 0, bs, ev.n + 1)
    /\ pc' = "peeked"
    /\ UNCHANGED <<input, dec, sect, drv, decomp, output>>

\* the slots minZ .. minZ+spanZ-1 that hold the peeked z: the narrowest and
\* the widest on either side
BsConsume ==
    /\ pc = "peeked"
    /\ \E minZ \in {0, ev.z}, top \in {ev.z + 1, ev.one} :
         /\ bs' = Consume(bs, minZ, top - minZ, ev.one)
         /\ ev' = BsEvent("Consume", ev.one, ev.z, minZ, top - minZ, bs, ev.n)
    /\ pc' = "idle"
    /\ UNCHANGED <<input, dec, sect, drv, decomp, output>>

NextBS == BsGet \/ BsPeek \/ BsConsume

SpecBS == InitBS /\ [][NextBS]_vars

\* C2: after every Get(one) and after every Consume(minZ, spanZ, one) of a
\* slot that holds the z of the preceding Peek(one), the shift register is
\* below the modulus and the modulus is positive.
RangeInvariant ==
    ev.op \in {"Get", "Consume"} =>
        /\ Lt32(bs.sr, bs.srModulus)
        /\ Lt32(Of32(0), bs.srModulus)

\* a top-slot Consume (minZ + spanZ = one, minZ > 0) of a range that one does
\* not divide has happened
RangeWitness ==
    /\ ev.op = "Consume"
    /\ ev.minZ > 0
    /\ ev.minZ + ev.spanZ = ev.one
    /\ Mod32(ev.pre.srModulus, ev.one) # 0

\* C10: Get(one) returns the z of Peek(one) and leaves the bitstream as
\* Peek(one) followed by Consume(z, 1, one) leaves it (cursor, sr, srModulus,
\* lsb), from the state the Get started in.
GetIsPeekConsume ==
    ev.op = "Get" =>
        LET p == Peek(input, ev.pre, ev.one)
        IN  /\ p.z = ev.z
            /\ Consume(p.bs, p.z, 1, ev.one) = bs

\* a Get that returned the top slot z = one - 1 of a range that one does not
\* divide: the modulus keeps the remainder
GetTopSlotWitness ==
    /\ ev.op = "Get"
    /\ ev.one > 1
    /\ ev.z = ev.one - 1
    /\ Mod32(Ingest(input, ev.pre).srModulus, ev.one) # 0
    /\ bs.srModulus # Div32(Ingest(input, ev.pre).srModulus, ev.one)

\* C11: every Ingest (the one each Peek and each Get starts with) makes at
\* most 3 passes and ends with 0x800000 < srModulus <= 0x80000000 and
\* sr < srModulus, no pass shifts a set bit out of sr or srModulus, the cursor
\* advances by one byte per pass, and no operation moves the cursor backward.
IngestPostcondition ==
    /\ ev.op \in {"Get", "Peek"} =>
          LET b1 == Ingest(input, ev.pre)
              n  == IngestIterations(input, ev.pre)
          IN  /\ n <= 3
              /\ Lt32(<<128, 0>>, b1.srModulus)
              /\ Le32(b1.srModulus, <<32768, 0>>)
              /\ Lt32(b1.sr, b1.srModulus)
              /\ IngestExact(input, ev.pre)
              /\ b1.pos = ev.pre.pos + n
              /\ bs.pos = b1.pos
              /\ ev.op = "Peek" => bs = b1
    /\ bs.pos >= ev.pre.pos
    /\ ev.op = "Consume" => bs.pos = ev.pre.pos

\* the first Ingest after construction made 3 passes and ended with
\* srModulus = 0x80000000, and a later Ingest, after the range was narrowed,
\* made 2 passes
IngestWitness ==
    /\ ev.op = "Get"
    /\ ev.n = 3
    /\ bs.pos = 6
    /\ IngestIterations(input, ev.pre) = 2
    /\ IngestIterations(input, BsConstruct(input)) = 3
    /\ Ingest(input, BsConstruct(input)).srModulus = <<32768, 0>>

\* C12: no Ingest reads a byte at or beyond the end of the compressed slice:
\* an Ingest that would move the cursor past the end is refused instead.
TruncatedBitstream ==
    /\ ~bs.over
    /\ bs.pos <= input.len

----------------------------------------------------------------------------
(* Decoder-level specification: one freshly constructed Oodle1Decoder is   *)
(* initialized and then decodes from the bitstream, call after call.  A    *)
(* Decode call is followed through its steps: the renormalization check,   *)
(* Decay, Renormalize, and the rest of the call.                           *)

\* (alphabetSize, uniqueSymbols) pairs the decoder is initialized with
AlphabetCases == {<<2, 2>>, <<4, 3>>, <<4, 4>>}

\* ghost record of the decoder: the last step (op), the number of Decode
\* calls begun (n), the last call's return value (sym) and branch, whether
\* the escape slot was retired since the last Decay, the decoder before the
\* last Decay (pre), and the values Decode has returned from its new-symbol
\* branch (introduced)
DecEvent(op, n, alphabetSize, sym, branch, retired) ==
    [op |-> op, n |-> n, alphabetSize |-> alphabetSize, sym |-> sym,
     branch |-> branch, retired |-> retired, pre |-> DecoderNew,
     introduced |-> {}]

InitDec ==
    /\ input \in Inputs({8 * MaxDecodes})
    /\ bs = BsConstruct(input)
    /\ pc = "new"
    /\ ev = DecEvent("construct", 0, 0, 0, "none", FALSE)
    /\ dec = DecoderNew
    /\ sect = NoSect
    /\ drv = NoDrv
    /\ decomp = NoDecomp
    /\ output = NoOutput

DecInitialize ==
    /\ pc = "new"
    /\ \E c \in AlphabetCases :
         /\ dec' = Initialize(dec, c[1], c[2])
         /\ ev' = DecEvent("Initialize", 0, c[1], 0, "none", FALSE)
    /\ pc' = "idle"
    /\ UNCHANGED <<input, bs, sect, drv, decomp, output>>

\* Decode, lines 103-104: which of Decay and Renormalize the call runs
DecodeBegin ==
    /\ pc = "idle"
    /\ dec.fault = "none"
    /\ ev.n < MaxDecodes
    /\ pc' = IF NeedsDecay(dec) THEN "decay"
             ELSE IF NeedsRenorm(dec) THEN "renorm" ELSE "body"
    /\ ev' = [ev EXCEPT !.op = "Begin", !.n = @ + 1]
    /\ UNCHANGED <<input, bs, dec, sect, drv, decomp, output>>

\* a Decode in which Decay is not followed by Renormalize: the call goes on
\* to the peek with the weights and HLSN of the last renormalization
DecodeDecayOnly ==
    /\ pc = "decay"
    /\ dec' = Decay(dec)
    /\ pc' = "body"
    /\ ev' = [ev EXCEPT !.op = "Decay", !.retired = FALSE, !.pre = dec]
    /\ UNCHANGED <<input, bs, sect, drv, decomp, output>>

DecodeDecay ==
    /\ pc = "decay"
    /\ dec' = Decay(dec)
    /\ pc' = "renorm"
    /\ ev' = [ev EXCEPT !.op = "Decay", !.retired = FALSE, !.pre = dec]
    /\ UNCHANGED <<input, bs, sect, drv, decomp, output>>

DecodeRenormalize ==
    /\ pc = "renorm"
    /\ dec' = Renormalize(dec)
    /\ pc' = IF dec'.fault = "none" THEN "body" ELSE "idle"
    /\ ev' = [ev EXCEPT !.op = "Renormalize"]
    /\ UNCHANGED <<input, bs, sect, drv, decomp, output>>

DecodeFinish ==
    /\ pc = "body"
    /\ LET r == DecodeBody(input, bs, dec, ev.alphabetSize)
       IN  /\ dec' = r.d
           /\ bs' = r.bs
           /\ ev' = [ev EXCEPT !.op = "Decode", !.sym = r.sym, !.branch = r.branch,
                               !.retired = (@ \/ r.branch = "retire"),
                               !.introduced = IF r.branch \in {"new", "retire"}
                                              THEN @ \cup {r.sym} ELSE @]
    /\ pc' = "idle"
    /\ UNCHANGED <<input, sect, drv, decomp, output>>

NextDec ==
    \/ DecInitialize
    \/ DecodeBegin
    \/ DecodeDecay
    \/ DecodeRenormalize
    \/ DecodeFinish

SpecDec == InitDec /\ [][NextDec]_vars

\* C1: after every Renormalize and every completed Decode of an initialized
\* decoder, weights[0] = 0, weights[i] <= weights[i+1] for every i <= HLSN
\* (so weights[HLSN + 1] is a slot of the vector), and every weight above
\* HLSN is One.
WeightMonotonicity ==
    (ev.op \in {"Renormalize", "Decode"} /\ dec.fault = "none") =>
        LET w == dec.symbolWeights
        IN  /\ w[0] = 0
            /\ \A i \in 0..dec.highestNormalizedSymbol :
                 /\ (i + 1) \in DOMAIN w
                 /\ w[i] <= w[i + 1]
            /\ \A i \in DOMAIN w :
                 i > dec.highestNormalizedSymbol => w[i] = One

\* C3: after every Decode (on each of its branches), every Renormalize and
\* every Decay, the slots 0..HLS are slots of symbolOccurrences and
\* totalOccurrence is their sum.
Conservation ==
    ev.op \in {"Decode", "Renormalize", "Decay"} =>
        /\ dec.highestLearnedSymbol \in DOMAIN dec.symbolOccurrences
        /\ dec.totalOccurrence =
              SumTo(dec.symbolOccurrences, dec.highestLearnedSymbol)

\* C4: HLS never exceeds usedSymbolCount, and once the escape slot has been
\* retired (HLS = usedSymbolCount reached) occurrences[0] stays 0 until the
\* next Decay.
LearnedAlphabetBound ==
    pc # "new" =>
        /\ dec.highestLearnedSymbol <= dec.usedSymbolCount
        /\ ev.retired => dec.symbolOccurrences[0] = 0

\* C13: in every Decode, for the z that Peek(One) returns, the linear scan
\* stops at a slot i <= HLSN with weights[i] <= z < weights[i+1], and it reads
\* no weight outside the vector.
SlotSelection ==
    pc = "body" =>
        LET z == Peek(input, bs, One).z
            i == ScanFrom(dec, z, 0)
            w == dec.symbolWeights
        IN  /\ i >= 0
            /\ i <= dec.highestNormalizedSymbol
            /\ (i + 1) \in DOMAIN w
            /\ w[i] <= z
            /\ z < w[i + 1]

\* C19: over the Decode calls of one decoder, a Renormalize that finds
\* 2 * RRI < RI doubles RRI (which so takes the values 8, 16, 32, ... and
\* stays below RI) and sets NRW = totalOccurrence + RRI; every other
\* Renormalize leaves RRI alone and sets NRW = totalOccurrence + RI, and so do
\* all later ones, since nothing else changes RRI or RI; after every
\* Renormalize NRW > totalOccurrence, and the interval NRW - totalOccurrence
\* it sets is never shorter than the one set before.
RenormSchedule ==
    [][ pc # "new" =>
          /\ dec'.renormInterval = dec.renormInterval
          /\ (pc = "renorm" /\ dec'.fault = "none") =>
                /\ dec'.totalOccurrence = dec.totalOccurrence
                /\ IF 2 * dec.rapidRenormInterval < dec.renormInterval
                   THEN /\ dec'.rapidRenormInterval = 2 * dec.rapidRenormInterval
                        /\ dec'.nextRenormWeight =
                              dec'.totalOccurrence + dec'.rapidRenormInterval
                   ELSE /\ dec'.rapidRenormInterval = dec.rapidRenormInterval
                        /\ dec'.nextRenormWeight =
                              dec'.totalOccurrence + dec'.renormInterval
                        /\ ~(2 * dec'.rapidRenormInterval < dec'.renormInterval)
                /\ dec'.rapidRenormInterval \in {8, 16, 32, 64}
                /\ dec'.rapidRenormInterval < dec'.renormInterval
                /\ dec'.nextRenormWeight > dec'.totalOccurrence
                /\ dec'.nextRenormWeight - dec'.totalOccurrence
                      >= dec.rapidRenormInterval
          /\ pc # "renorm" => dec'.rapidRenormInterval = dec.rapidRenormInterval
      ]_vars

\* a Renormalize after the ramp 8, 16, 32, 64 has ended, and after a Decay:
\* the interval is RI
RenormScheduleWitness ==
    /\ ev.op = "Renormalize"
    /\ dec.fault = "none"
    /\ dec.rapidRenormInterval = 64
    /\ dec.nextRenormWeight = dec.totalOccurrence + dec.renormInterval
    /\ ev.pre.totalOccurrence >= ev.pre.decayThreshold
    /\ ev.pre.decayThreshold > 0

\* C20: a Decode call runs Renormalize iff totalOccurrence >= NRW at its
\* entry and runs Decay iff also totalOccurrence >= DT; Decay is followed at
\* once by Renormalize; the bitstream is not touched until both are done;
\* so HLSN <= HLS when the slot is looked up, and HLS - HLSN >= 1 when the
\* escape path reads Get(HLS - HLSN).
DecayRenormOrdering ==
    [][ /\ pc = "idle" =>
             /\ pc' = "decay" <=> (/\ dec.totalOccurrence >= dec.nextRenormWeight
                                   /\ dec.totalOccurrence >= dec.decayThreshold)
             /\ pc' = "renorm" <=> (/\ dec.totalOccurrence >= dec.nextRenormWeight
                                    /\ dec.totalOccurrence < dec.decayThreshold)
             /\ pc' = "body" <=> dec.totalOccurrence < dec.nextRenormWeight
             /\ dec' = dec
        /\ pc = "decay" => pc' = "renorm"
        /\ pc \in {"idle", "decay", "renorm"} => bs' = bs
        /\ (pc = "renorm" /\ dec'.fault = "none") =>
             /\ pc' = "body"
             /\ dec'.highestNormalizedSymbol = dec'.highestLearnedSymbol
        /\ pc = "body" =>
             /\ dec.highestNormalizedSymbol <= dec.highestLearnedSymbol
             /\ ev'.branch = "pending" =>
                   dec.highestLearnedSymbol - dec.highestNormalizedSymbol >= 1
      ]_vars

\* a Decode call ran Decay, which evicted slots that the last renormalization
\* had counted (HLS fell below the old HLSN), then Renormalize, and is about
\* to peek the bitstream
DecayRenormWitness ==
    /\ pc = "body"
    /\ ev.op = "Renormalize"
    /\ ev.pre.totalOccurrence >= ev.pre.decayThreshold
    /\ ev.pre.decayThreshold > 0
    /\ dec.symbolOccurrences = Decay(ev.pre).symbolOccurrences
    /\ dec.highestLearnedSymbol < ev.pre.highestNormalizedSymbol
    /\ dec.highestNormalizedSymbol = dec.highestLearnedSymbol

----------------------------------------------------------------------------
(* Decay-level specification: a Decode call that finds both thresholds     *)
(* reached (lines 103-104) on a decoder of alphabet size 4, followed from  *)
(* Decay on.  The decoder is in a state the earlier calls can leave: the   *)
(* slots 1..HLS are live (occurrence >= 1, since a new slot starts at 2    *)
(* and Decay keeps only slots it leaves at 1 or more), the slots above HLS *)
(* are 0, the escape slot is 0 exactly when HLS = usedSymbolCount,         *)
(* totalOccurrence is the sum of the slots 0..HLS and has reached          *)
(* decayThreshold = 256 and nextRenormWeight, rapidRenormInterval has      *)
(* finished its ramp at 64, and the weights are cumulative over 0..HLSN.   *)

\* occurrences of the slots other than the most frequent one, which holds
\* decayThreshold by itself
DecayCounts == {1, 2, 3, 5}

\* uniqueSymbols of the decoder
DecayUniques == {3, 4}

\* the decoder with hls live slots, slot i holding symbol i - 1 and the
\* occurrence occ[i], slot top holding 256 instead, and the escape slot esc
DrawnDecoder(uniqueSymbols, hls, occ, top, esc) ==
    LET base == Initialize(DecoderNew, 4, uniqueSymbols)
        o    == [i \in DOMAIN base.symbolOccurrences |->
                    IF i = 0 THEN esc
                    ELSE IF i = top THEN base.decayThreshold
                    ELSE IF i <= hls THEN occ[i] ELSE 0]
        d    == [base EXCEPT
                   !.symbols = [i \in DOMAIN base.symbols |->
                                   IF i \in 1..hls THEN i - 1 ELSE 0],
                   !.symbolOccurrences   = o,
                   !.totalOccurrence     = SumTo(o, hls),
                   !.highestLearnedSymbol = hls,
                   !.rapidRenormInterval = 64]
    IN  [Renormalize(d) EXCEPT !.nextRenormWeight = d.totalOccurrence]

InitDecay ==
    /\ input \in {i \in Inputs({64}) : i.prefix = <<>>}
    /\ bs = BsConstruct(input)
    /\ pc = "decay"
    /\ ev = DecEvent("Begin", 1, 4, 0, "none", FALSE)
    /\ \E u \in DecayUniques, hls \in 1..4 :
         \E occ \in [1..hls -> DecayCounts], top \in 1..hls,
            esc \in (IF hls = u THEN {0} ELSE {1, 2}) :
              /\ hls <= u
              /\ dec = DrawnDecoder(u, hls, occ, top, esc)
    /\ sect = NoSect
    /\ drv = NoDrv
    /\ decomp = NoDecomp
    /\ output = NoOutput

NextDecay ==
    \/ DecodeDecay
    \/ DecodeRenormalize
    \/ DecodeFinish

SpecDecay == InitDecay /\ [][NextDecay]_vars

\* C16: after Decay, the (symbol, occurrence) pairs of the slots 1..HLS are,
\* counted with multiplicity, the pairs (s, c \div 2) of the slots 1..HLS_old
\* that had c >= 2 before the Decay; every slot 1..HLS has an occurrence of at
\* least 1 and every slot HLS+1..HLS_old has the occurrence 0.
DecayEviction ==
    ev.op = "Decay" =>
        LET old       == ev.pre
            survivors == {i \in 1..old.highestLearnedSymbol :
                            old.symbolOccurrences[i] >= 2}
            halved(i) == <<old.symbols[i], old.symbolOccurrences[i] \div 2>>
            kept(i)   == <<dec.symbols[i], dec.symbolOccurrences[i]>>
            live      == 1..dec.highestLearnedSymbol
        IN  /\ \A pair \in {halved(i) : i \in survivors} \cup {kept(i) : i \in live} :
                 Cardinality({i \in survivors : halved(i) = pair})
                    = Cardinality({i \in live : kept(i) = pair})
            /\ \A i \in live : dec.symbolOccurrences[i] >= 1
            /\ \A i \in (dec.highestLearnedSymbol + 1)..old.highestLearnedSymbol :
                 dec.symbolOccurrences[i] = 0

\* a Decay evicted a slot below the top whose symbol differed from the symbol
\* of the top slot that took its place, and kept at least two slots
DecayEvictionWitness ==
    /\ ev.op = "Decay"
    /\ dec.highestLearnedSymbol >= 2
    /\ \E i \in 1..(ev.pre.highestLearnedSymbol - 1) :
         /\ ev.pre.symbolOccurrences[i] <= 1
         /\ ev.pre.symbolOccurrences[ev.pre.highestLearnedSymbol] >= 2
         /\ ev.pre.symbols[i] # ev.pre.symbols[ev.pre.highestLearnedSymbol]

\* C17: after every Decay that leaves HLS >= 1, the top slot HLS has the
\* greatest occurrence of the slots 1..HLS.
DecayTopIsMax ==
    (ev.op = "Decay" /\ dec.highestLearnedSymbol >= 1) =>
        \A i \in 1..dec.highestLearnedSymbol :
            dec.symbolOccurrences[dec.highestLearnedSymbol]
                >= dec.symbolOccurrences[i]

\* a Decay evicted a slot and moved the most frequent slot, which was below
\* the slot that became the top, up to the top
DecayTopWitness ==
    /\ ev.op = "Decay"
    /\ dec.highestLearnedSymbol >= 2
    /\ dec.highestLearnedSymbol < ev.pre.highestLearnedSymbol
    /\ \E i \in 1..(dec.highestLearnedSymbol - 1) :
         /\ ev.pre.symbolOccurrences[i] = ev.pre.decayThreshold
         /\ dec.symbols[dec.highestLearnedSymbol] = ev.pre.symbols[i]
         /\ dec.symbolOccurrences[dec.highestLearnedSymbol]
               = ev.pre.decayThreshold \div 2
         /\ dec.symbolOccurrences[i] < dec.symbolOccurrences[dec.highestLearnedSymbol]

----------------------------------------------------------------------------
(* Initialize applied to a freshly constructed decoder, over the alphabet  *)
(* sizes the decompressor passes: 1 upward for the offset decoders, up to  *)
(* 511 for literals, 65 for lengths, up to 8192 for the 1024-granularity   *)
(* offsets.                                                                *)

\* every alphabet size from 1 up to this one is explored
MaxSmallAlphabet == 70

\* alphabet sizes around the points where a clamp starts or stops to apply
InitAlphabets ==
    (1..MaxSmallAlphabet) \cup {257, 474, 475, 476, 511, 3775, 3776, 8192}

InitNew ==
    /\ input = [prefix |-> <<>>, filler |-> <<0, 0>>, len |-> 0]
    /\ bs = BsConstruct(input)
    /\ pc = "new"
    /\ ev = DecEvent("construct", 0, 0, 0, "none", FALSE)
    /\ dec = DecoderNew
    /\ sect = NoSect
    /\ drv = NoDrv
    /\ decomp = NoDecomp
    /\ output = NoOutput

InitializeAny ==
    /\ pc = "new"
    /\ \E alphabetSize \in InitAlphabets :
         \E uniqueSymbols \in {1, alphabetSize} :
            /\ dec' = Initialize(dec, alphabetSize, uniqueSymbols)
            /\ ev' = DecEvent("Initialize", 0, alphabetSize, 0, "none", FALSE)
    /\ pc' = "idle"
    /\ UNCHANGED <<input, bs, sect, drv, decomp, output>>

NextInit == InitializeAny

SpecInit == InitNew /\ [][NextInit]_vars

\* C18 as stated: after Initialize with alphabetSize >= 1, decayThreshold is
\* in [256, 15160] and renormInterval is in [128, decayThreshold / 2 - 32];
\* decayThreshold is (alphabetSize - 1) * 32 and renormInterval is
\* (alphabetSize - 1) * 2 whenever those values are inside these bounds.
ThresholdClampsAsStated ==
    ev.op = "Initialize" =>
        LET dt == dec.decayThreshold
            ri == dec.renormInterval
            a  == ev.alphabetSize
        IN  /\ dt \in 256..15160
            /\ ri \in 128..((dt \div 2) - 32)
            /\ (a - 1) * 32 \in 256..15160 => dt = (a - 1) * 32
            /\ (a - 1) * 2 \in 128..((dt \div 2) - 32) => ri = (a - 1) * 2

\* C18, amended: decayThreshold is in [256, 15160]; renormInterval is in
\* [128, decayThreshold / 2 - 32] when that interval is not empty and is 128
\* when it is empty (decayThreshold < 320, alphabetSize <= 10);
\* decayThreshold is (alphabetSize - 1) * 32 and renormInterval is
\* (alphabetSize - 1) * 2 whenever those values are inside these bounds.
ThresholdClamps ==
    ev.op = "Initialize" =>
        LET dt == dec.decayThreshold
            ri == dec.renormInterval
            a  == ev.alphabetSize
        IN  /\ dt \in 256..15160
            /\ (dt \div 2) - 32 >= 128 => ri \in 128..((dt \div 2) - 32)
            /\ (dt \div 2) - 32 < 128 => (ri = 128 /\ a <= 10)
            /\ a <= 10 => ri = 128
            /\ (a - 1) * 32 \in 256..15160 => dt = (a - 1) * 32
            /\ (a - 1) * 2 \in 128..((dt \div 2) - 32) => ri = (a - 1) * 2

\* a decoder of a small alphabet was initialized: the lower bound 128 of
\* renormInterval is above decayThreshold / 2 - 32 = 96
ThresholdWitness ==
    /\ ev.op = "Initialize"
    /\ ev.alphabetSize = 2
    /\ dec.decayThreshold = 256
    /\ dec.renormInterval = 128
    /\ (dec.decayThreshold \div 2) - 32 = 96

----------------------------------------------------------------------------
(* Initialize called again on a decoder that has decoded: the decoder of    *)
(* the decoder-level specification, between two Decode calls, is            *)
(* initialized a second time with one of the same (alphabetSize,            *)
(* uniqueSymbols) pairs.                                                    *)

DecReinitialize ==
    /\ pc = "idle"
    /\ ev.op = "Decode"
    /\ dec.fault = "none"
    /\ \E c \in AlphabetCases :
         /\ dec' = Initialize(dec, c[1], c[2])
         /\ ev' = DecEvent("Initialize", ev.n, c[1], 0, "none", FALSE)
    /\ pc' = "reinit"
    /\ UNCHANGED <<input, bs, sect, drv, decomp, output>>

NextReinit ==
    \/ DecInitialize
    \/ DecodeBegin
    \/ DecodeDecay
    \/ DecodeRenormalize
    \/ DecodeFinish
    \/ DecReinitialize

SpecReinit == InitDec /\ [][NextReinit]_vars

\* C21: after Initialize, on a fresh decoder or on one that has decoded,
\* HLS = 0, HLSN = 0, occurrences[0] = 4, totalOccurrence = 4 is the sum of
\* all occurrences, NRW = 8, RRI = 4, weights[0] = 0 and weights[i] = One for
\* every i >= 1.
InitializePostcondition ==
    ev.op = "Initialize" =>
        /\ dec.highestLearnedSymbol = 0
        /\ dec.highestNormalizedSymbol = 0
        /\ dec.symbolOccurrences[0] = 4
        /\ dec.totalOccurrence = 4
        /\ SumTo(dec.symbolOccurrences, ev.alphabetSize + 1) = 4
        /\ dec.nextRenormWeight = 8
        /\ dec.rapidRenormInterval = 4
        /\ dec.symbolWeights[0] = 0
        /\ \A i \in DOMAIN dec.symbolWeights : i >= 1 => dec.symbolWeights[i] = One

----------------------------------------------------------------------------
(* Long runs of one decoder: a decoder of the largest literal alphabet      *)
(* (511 symbols, decayThreshold 15160) and one of 64 symbols                *)
(* (decayThreshold 2016) decode until totalOccurrence has passed            *)
(* decayThreshold and Decay has run.                                        *)

\* number of Decode calls of a long run
MaxLongDecodes == 16200

\* (alphabetSize, uniqueSymbols) of the long runs
LongCases == {<<511, 511>>, <<64, 64>>}

\* the compressed bytes of the long runs: the top of the range, which makes
\* every Decode after the first hit the same slot, so that one occurrence
\* slot grows as fast as totalOccurrence does
LongFillers == {<<255, 255>>}

InitLong ==
    /\ input \in { [prefix |-> <<>>, filler |-> f, len |-> 8 * MaxLongDecodes] :
                     f \in LongFillers }
    /\ bs = BsConstruct(input)
    /\ pc = "new"
    /\ ev = DecEvent("construct", 0, 0, 0, "none", FALSE)
    /\ dec = DecoderNew
    /\ sect = NoSect
    /\ drv = NoDrv
    /\ decomp = NoDecomp
    /\ output = NoOutput

LongInitialize ==
    /\ pc = "new"
    /\ \E c \in LongCases :
         /\ dec' = Initialize(dec, c[1], c[2])
         /\ ev' = DecEvent("Initialize", 0, c[1], 0, "none", FALSE)
    /\ pc' = "idle"
    /\ UNCHANGED <<input, bs, sect, drv, decomp, output>>

\* Decode, lines 103-104, for the calls of a long run
LongBegin ==
    /\ pc = "idle"
    /\ dec.fault = "none"
    /\ ev.n < MaxLongDecodes
    /\ pc' = IF NeedsDecay(dec) THEN "decay"
             ELSE IF NeedsRenorm(dec) THEN "renorm" ELSE "body"
    /\ ev' = [ev EXCEPT !.op = "Begin", !.n = @ + 1]
    /\ UNCHANGED <<input, bs, dec, sect, drv, decomp, output>>

NextLong ==
    \/ LongInitialize
    \/ LongBegin
    \/ DecodeDecay
    \/ DecodeRenormalize
    \/ DecodeFinish

SpecLong == InitLong /\ [][NextLong]_vars

\* C22: over the Decode calls of a decoder of at most 511 symbols no
\* occurrence slot wraps: an increment (by 1 or by 2) never takes a slot to
\* 2^16 or beyond, so the only slot a Decode lowers is the escape slot it
\* retires, and totalOccurrence stays below 2^16 as well.
NoOccurrenceOverflow ==
    [][ pc = "body" =>
          /\ dec'.totalOccurrence < U16
          /\ \A i \in DOMAIN dec.symbolOccurrences :
                \/ dec'.symbolOccurrences[i] >= dec.symbolOccurrences[i]
                \/ /\ i = 0
                   /\ ev'.branch = "retire"
                   /\ dec.symbolOccurrences[0] + 1 < U16
      ]_vars

\* a slot had grown past decayThreshold when Decay halved it, and the
\* decoder has incremented it again since
OccurrenceWitness ==
    /\ ev.op = "Decode"
    /\ ev.pre.decayThreshold >= 2016
    /\ \E i \in DOMAIN ev.pre.symbolOccurrences :
          /\ ev.pre.symbolOccurrences[i] >= ev.pre.decayThreshold
          /\ dec.symbolOccurrences[i] > ev.pre.symbolOccurrences[i] \div 2
          /\ dec.symbolOccurrences[i] < ev.pre.decayThreshold

\* C26: after every Renormalize that a Decode call runs, every slot i in
\* 0..HLS with occurrences[i] >= 1 has a span weights[i+1] - weights[i] >= 1
\* (weights[i+1] is a slot of the vector): no nonzero count is truncated to
\* an empty interval.
LiveSlotsDecodable ==
    ev.op = "Renormalize" =>
        \A i \in 0..dec.highestLearnedSymbol :
            dec.symbolOccurrences[i] >= 1 =>
                /\ (i + 1) \in DOMAIN dec.symbolWeights
                /\ dec.symbolWeights[i + 1] - dec.symbolWeights[i] >= 1

\* C24: for every alphabet size the driver configures, a known or pending
\* hit of a slot returns the value that Decode returned when it introduced
\* the slot's symbol: the slot holds the value returned at introduction, and
\* what a hit returns is one of the values returned at an introduction.
SymbolFidelity ==
    ev.op = "Decode" =>
        /\ ev.branch \in {"new", "retire"} =>
              dec.symbols[dec.highestLearnedSymbol] = ev.sym
        /\ ev.branch \in {"known", "pending"} => ev.sym \in ev.introduced

----------------------------------------------------------------------------
(* Section-level specification: GrannyFile::DecompressOodle1 decodes one   *)
(* Oodle1 section of memSize bytes, three streams over one bitstream.      *)
(* pc is "loop" at the head of the for loop, "stream" inside the while     *)
(* loop, "done" after the function returned and "fault" when a decoder     *)
(* left its vectors.                                                       *)

\* the three header words of a stream
MakeHeader(windowSize, litAlphabetSize, uniqueLitCount, largest1KOffset, lens) ==
    << Of32(windowSize * 512 + litAlphabetSize),
       Of32(largest1KOffset * 524288 + uniqueLitCount),
       <<lens[1] * U8 + lens[2], lens[3] * U8 + lens[4]>> >>

HeaderCases ==
    { MakeHeader(3, 4, 4, 0, <<2, 3, 4, 5>>),
      MakeHeader(0, 2, 2, 0, <<65, 1, 1, 1>>) }

\* <<stream0Stop, stream1Stop, memSize>>
SectionCases ==
    { <<2, 2, 4>>, <<0, 2, 4>>, <<2, 4, 4>>, <<1, 3, 5>>, <<3, 3, 3>>, <<4, 4, 5>>,
      <<5, 5, 5>> }

\* streamEndOffsets[streamIdx]
StreamEnd(sc, streamIdx) ==
    <<sc.stream0Stop, sc.stream1Stop, sc.memSize>>[streamIdx + 1]

\* the stop offset of the stream before streamIdx, 0 for the first
PreviousEnd(sc, streamIdx) ==
    IF streamIdx = 0 THEN 0 ELSE StreamEnd(sc, streamIdx - 1)

\* the header words at headerPtr, headerPtr + 1, headerPtr + 2
HeaderAt(sc, headerPtr) ==
    <<sc.words[headerPtr + 1], sc.words[headerPtr + 2], sc.words[headerPtr + 3]>>

\* the header pointer that is left behind when the stream decodes nothing
HeaderPtrSkipEmpty(sc, d) ==
    IF d.outputOffset < StreamEnd(sc, d.streamIdx)
    THEN d.headerPtr + 3 ELSE d.headerPtr

\* headerPtr += 3
NextHeaderPtr(sc, d) == d.headerPtr + 3

\* ghost record of the driver: the last step (op), the Decompress calls of
\* the current stream (calls), the last call's return value, kind, offset and
\* the bytesOutput, outputOffset and output buffer it started from, the
\* bitstream after the last call (bsAfter), the header pointer, output
\* offset and output buffer the current stream started with, and the
\* Decompress calls of the section so far (total)
DrvEvent(op, calls, ret, kind, offset, bytesBefore, posBefore, outBefore, bsAfter, headerAt, beginOffset, beginOutput) ==
    [op |-> op, calls |-> calls, ret |-> ret, kind |-> kind, offset |-> offset,
     bytesBefore |-> bytesBefore, posBefore |-> posBefore, outBefore |-> outBefore,
     bsAfter |-> bsAfter, headerAt |-> headerAt,
     beginOffset |-> beginOffset, beginOutput |-> beginOutput, total |-> 0]

InitDrv ==
    /\ input \in Inputs({64})
    /\ bs = BsConstruct(input)
    /\ pc = "loop"
    /\ \E c \in SectionCases, h0 \in HeaderCases, h1 \in HeaderCases,
          h2 \in HeaderCases :
         /\ sect = [memSize |-> c[3], stream0Stop |-> c[1], stream1Stop |-> c[2],
                    words |-> h0 \o h1 \o h2]
         /\ output = [i \in 0..(c[3] - 1) |-> 0]
    /\ drv = [streamIdx |-> 0, headerPtr |-> 0, outputOffset |-> 0]
    /\ decomp = NoDecomp
    /\ ev = DrvEvent("construct", 0, 0, "none", 0, 0, 0, NoOutput, BsConstruct(input), 0,
                     0, NoOutput)
    /\ dec = DecoderNew

\* lines 146-152: the stream's decompressor is constructed and initialized
DrvStreamBegin ==
    /\ pc = "loop"
    /\ drv.streamIdx < 3
    /\ drv.outputOffset < sect.memSize
    /\ decomp' = DecompInitialize(HeaderAt(sect, drv.headerPtr))
    /\ drv' = [drv EXCEPT !.headerPtr = NextHeaderPtr(sect, drv)]
    /\ pc' = "stream"
    /\ ev' = [DrvEvent("Initialize", 0, 0, "none", 0, 0, drv.outputOffset, output,
                       ev.bsAfter, drv.headerPtr, drv.outputOffset, output)
                 EXCEPT !.total = ev.total]
    /\ UNCHANGED <<input, bs, dec, sect, output>>

\* line 154: outputOffset += r.ret, r the result of Decompress
DrvAdvance(r) ==
    /\ bs' = r.bs
    /\ decomp' = r.dc
    /\ output' = r.out
    /\ drv' = [drv EXCEPT !.outputOffset = @ + r.ret]
    /\ pc' = IF r.fault = "none" THEN "stream" ELSE "fault"
    /\ ev' = [ev EXCEPT !.op = "Decompress", !.calls = @ + 1,
                        !.ret = r.ret, !.kind = r.kind,
                        !.offset = r.offset,
                        !.bytesBefore = decomp.bytesOutput,
                        !.posBefore = drv.outputOffset,
                        !.outBefore = output,
                        !.bsAfter = r.bs,
                        !.total = @ + 1]

\* lines 153-154: one pass of the while loop
DrvDecompress ==
    /\ pc = "stream"
    /\ drv.outputOffset < StreamEnd(sect, drv.streamIdx)
    /\ \E wild \in ByteSet :
         DrvAdvance(Decompress(input, bs, decomp, output, drv.outputOffset, wild))
    /\ UNCHANGED <<input, dec, sect>>

\* line 153 false: the while loop ends and the for loop advances
DrvStreamEnd ==
    /\ pc = "stream"
    /\ ~(drv.outputOffset < StreamEnd(sect, drv.streamIdx))
    /\ drv' = [drv EXCEPT !.streamIdx = @ + 1]
    /\ pc' = "loop"
    /\ ev' = [ev EXCEPT !.op = "StreamEnd"]
    /\ UNCHANGED <<input, bs, dec, sect, decomp, output>>

\* lines 146-149: the for loop ends
DrvFinish ==
    /\ pc = "loop"
    /\ (drv.streamIdx >= 3 \/ drv.outputOffset >= sect.memSize)
    /\ pc' = "done"
    /\ ev' = [ev EXCEPT !.op = "Finish"]
    /\ UNCHANGED <<input, bs, dec, sect, drv, decomp, output>>

NextDrv ==
    \/ DrvStreamBegin
    \/ DrvDecompress
    \/ DrvStreamEnd
    \/ DrvFinish

SpecDrv == InitDrv /\ [][NextDrv]_vars

\* C5: the values returned by the Decompress calls of a section sum to
\* memSize, and the output offset is exactly stream0Stop when stream 0 ends
\* and exactly stream1Stop when stream 1 ends.
OutputConservation ==
    /\ pc = "done" => drv.outputOffset = sect.memSize
    /\ (ev.op = "StreamEnd" /\ drv.streamIdx \in {1, 2})
            => drv.outputOffset = StreamEnd(sect, drv.streamIdx - 1)

\* C6: a back-reference whose offset is zero or greater than bytesOutput at
\* that moment is not carried out: the call copies nothing and returns no
\* length to the caller.
InvalidBackReference ==
    (ev.op = "Decompress" /\ ev.kind = "repeat"
        /\ (ev.offset = 0 \/ ev.offset > ev.bytesBefore))
    => (ev.ret = 0 /\ output = ev.outBefore)

\* C7: no Decompress call returns a back-reference length that carries the
\* output position past the stop offset of the current stream.
DecodeOverrun ==
    (ev.op = "Decompress" /\ ev.kind = "repeat")
    => ev.posBefore + ev.ret <= StreamEnd(sect, drv.streamIdx)

\* C9: stream k, when reached, is initialized from the header words
\* 3k..3k+2 with the bitstream as the last Decompress call left it; a stream
\* whose stop offset equals the previous stop makes no Decompress call and
\* ends with the output, the output offset and the bitstream it started with.
StreamMultiplexing ==
    /\ ev.op \in {"Initialize", "Decompress", "StreamEnd"} =>
          /\ ev.headerAt = 3 * (IF ev.op = "StreamEnd" THEN drv.streamIdx - 1
                                ELSE drv.streamIdx)
          /\ decomp.header = HeaderAt(sect, ev.headerAt)
    /\ ev.op \in {"Initialize", "StreamEnd"} => bs = ev.bsAfter
    /\ (ev.op = "StreamEnd"
          /\ StreamEnd(sect, drv.streamIdx - 1) = PreviousEnd(sect, drv.streamIdx - 1))
       => /\ ev.calls = 0
          /\ output = ev.beginOutput
          /\ drv.outputOffset = ev.beginOffset

\* stream 2 decodes from the third header, which differs from the second,
\* after an empty stream 1 and a stream 0 that consumed bits
StreamWitness ==
    /\ ev.op = "Decompress"
    /\ drv.streamIdx = 2
    /\ sect.stream0Stop = sect.stream1Stop
    /\ sect.stream0Stop > 0
    /\ HeaderAt(sect, 6) # HeaderAt(sect, 3)
    /\ ev.headerAt = 6

\* C14 as stated: every length code c in 1..61 gives the back-reference
\* length c + 1, the codes above 61 give one of the lengths 128, 192, 256,
\* 512, and code 0 gives a literal.
RepeatLengthAsStated ==
    (ev.op = "Decompress" /\ ev.kind \in {"literal", "repeat"}) =>
        LET c == decomp.lastRepeatCode
        IN  /\ ev.kind = "literal" <=> c = 0
            /\ c \in 1..61 => ev.ret = c + 1
            /\ c > 61 => ev.ret \in {128, 192, 256, 512}

\* C14, amended: every length code c in 1..60 gives the back-reference length
\* c + 1 (lengths 2..61), the codes 61, 62, 63, 64 give the lengths 128, 192,
\* 256, 512 in that order, and code 0 gives a literal of one byte.
RepeatLengthMapping ==
    (ev.op = "Decompress" /\ ev.kind \in {"literal", "repeat"}) =>
        LET c == decomp.lastRepeatCode
        IN  /\ c \in 0..64
            /\ ev.kind = "literal" <=> c = 0
            /\ c = 0 => ev.ret = 1
            /\ c \in 1..60 => ev.ret = c + 1
            /\ c \in 61..64 => ev.ret = <<128, 192, 256, 512>>[c - 60]

\* back-references were decoded with the last code of the run and with the
\* first code of the long lengths
RepeatLengthWitness ==
    /\ ev.op = "Decompress"
    /\ ev.kind = "repeat"
    /\ decomp.lastRepeatCode = 61
    /\ ev.ret = 128

\* C15: after the decompressor's Initialize, the length decoders 16g..16g+15
\* (g = 0..3) have the uniqueSymbols count of byte g of header[2], the most
\* significant byte first, and length decoder 64 has the count of the final
\* byte, the one of group 3; all have the alphabet size 65.
LengthDecoderSeeding ==
    ev.op = "Initialize" =>
        LET w      == decomp.header[3]
            packed == <<w[1] \div U8, w[1] % U8, w[2] \div U8, w[2] % U8>>
        IN  \A k \in 0..64 :
              LET d == DecoderAt(decomp, <<"len", k>>)
              IN  /\ d.usedSymbolCount =
                        packed[(IF k = 64 THEN 3 ELSE k \div 16) + 1]
                  /\ DOMAIN d.symbolWeights = 0..66

\* the decoders of one kind that a Decompress call has used: those whose
\* state after the call differs from their state before it (every Decode
\* changes its decoder)
ChangedDecoders(before, after, kind) ==
    { id \in DOMAIN after.decoders :
        /\ id[1] = kind
        /\ \/ id \notin DOMAIN before.decoders
           \/ after.decoders[id] # before.decoders[id] }

\* the length code of the stream's last Decompress call, read off what the
\* call returned: 0 for a literal and before the first call, and for a
\* back-reference the code whose RepeatLengthTable entry the call returned
PrevLengthCode ==
    IF ev.calls = 0 \/ ev.kind # "repeat" THEN 0
    ELSE CHOOSE c \in 1..64 : RepeatLengthTable[c + 1] = ev.ret

\* C23 as stated: the n-th Decompress call of a stream decodes its length
\* code with lenDecoders[c], c the length code of call n - 1, which is 0 for
\* the first call and also after a back-reference; c is within 0..64; a
\* literal is decoded with litDecoders[b mod 4], b the number of bytes the
\* stream has emitted so far.
ContextSelectionAsStated ==
    [][ (pc = "stream" /\ ev'.op = "Decompress" /\ ev'.calls = ev.calls + 1) =>
          /\ PrevLengthCode \in 0..64
          /\ ChangedDecoders(decomp, decomp', "len") = {<<"len", PrevLengthCode>>}
          /\ (ev.calls = 0 \/ ev.kind = "repeat") =>
                ChangedDecoders(decomp, decomp', "len") = {<<"len", 0>>}
          /\ ev'.kind = "literal" =>
                ChangedDecoders(decomp, decomp', "lit") =
                   {<<"lit", (drv.outputOffset - ev.beginOffset) % 4>>}
      ]_vars

\* C23, amended: the n-th Decompress call of a stream decodes its length code
\* with lenDecoders[c], c the length code of call n - 1: 0 for the first call
\* and after a literal, and the back-reference's own code (1..64) after a
\* back-reference; c is within 0..64; a literal is decoded with
\* litDecoders[b mod 4], b the number of bytes the stream has emitted so far.
ContextSelection ==
    [][ (pc = "stream" /\ ev'.op = "Decompress" /\ ev'.calls = ev.calls + 1) =>
          /\ PrevLengthCode \in 0..64
          /\ ChangedDecoders(decomp, decomp', "len") = {<<"len", PrevLengthCode>>}
          /\ (ev.calls = 0 \/ ev.kind = "literal") => PrevLengthCode = 0
          /\ (ev.calls > 0 /\ ev.kind = "repeat") =>
                /\ PrevLengthCode \in 1..64
                /\ PrevLengthCode = decomp.lastRepeatCode
          /\ ev'.kind = "literal" =>
                ChangedDecoders(decomp, decomp', "lit") =
                   {<<"lit", (drv.outputOffset - ev.beginOffset) % 4>>}
      ]_vars

\* a call that followed a back-reference has decoded its length code with
\* the length decoder of that back-reference's code and has completed, in a
\* stream that began with a literal
ContextWitness ==
    /\ ev.op = "Decompress"
    /\ ev.calls >= 3
    /\ ev.kind \in {"literal", "repeat"}
    /\ \E c \in 1..64 : <<"len", c>> \in DOMAIN decomp.decoders
    /\ <<"lit", 0>> \in DOMAIN decomp.decoders

\* the stream initializations of the section so far: headerPtr advances by
\* three words at each (line 152)
StreamInitializations == drv.headerPtr \div 3

\* C27: every Decompress call returns at least 1 (exactly 1 for a literal,
\* at least 2 for a back-reference), so the output offset is strictly greater
\* after every call than before it, and a section makes at most memSize
\* Decompress calls and at most three stream initializations.
DriverProgress ==
    /\ ev.op = "Decompress" =>
          /\ ev.ret >= 1
          /\ ev.kind = "literal" => ev.ret = 1
          /\ ev.kind # "literal" => ev.ret >= 2
          /\ drv.outputOffset > ev.posBefore
    /\ ev.total <= sect.memSize
    /\ StreamInitializations <= 3

----------------------------------------------------------------------------
(* Stream-level specification: one stream of a large section, decoded by    *)
(* the Decompress calls that DecompressOodle1 makes on it.  The header      *)
(* configures a window of 262144 bytes (256 buckets of 1024 bytes and one   *)
(* more), 256 literals and 257 offset buckets.  The compressed bytes encode *)
(* the literal 97, then 1024 back-references of length 256 (length code 63) *)
(* at offset 1, then a back-reference at offset 262145, the first byte of   *)
(* the stream: every offset is within the bytes already emitted.  The       *)
(* output bytes are not followed, since no decoder reads them: output is    *)
(* the empty buffer and every write falls outside it.                       *)

\* number of Decompress calls followed
MaxWinCalls == 1030

\* the three header words of the stream
WinHeader == MakeHeader(262144, 256, 256, 256, <<65, 65, 65, 65>>)

\* the compressed bytes of the stream
WinStream ==
    <<   1, 127, 242,   2, 196, 127, 255, 255, 255, 255, 255, 255, 255,
       255, 255, 255, 255, 255, 255, 255, 255, 255, 255, 255, 255, 255,
       255, 255, 255, 255, 255, 255, 255, 255, 253, 238, 167,  40,   0 >>

\* the streams explored: the one above, and the ones that differ from it in
\* the first byte
WinInputs ==
    { [prefix |-> [WinStream EXCEPT ![1] = b], filler |-> <<0, 0>>,
       len |-> Len(WinStream)] : b \in {1} \cup ByteSet }

InitWin ==
    /\ input \in WinInputs
    /\ bs = BsConstruct(input)
    /\ pc = "new"
    /\ ev = DrvEvent("construct", 0, 0, "none", 0, 0, 0, NoOutput, BsConstruct(input), 0,
                     0, NoOutput)
    /\ dec = DecoderNew
    /\ sect = NoSect
    /\ drv = NoDrv
    /\ decomp = NoDecomp
    /\ output = NoOutput

\* Oodle1Decompressor decomp(bs); decomp.Initialize(headerPtr)
WinInitialize ==
    /\ pc = "new"
    /\ decomp' = DecompInitialize(WinHeader)
    /\ pc' = "stream"
    /\ ev' = [ev EXCEPT !.op = "Initialize"]
    /\ UNCHANGED <<input, bs, dec, sect, drv, output>>

\* outputOffset += r.ret, r the result of Decompress
WinAdvance(r) ==
    /\ bs' = r.bs
    /\ decomp' = r.dc
    /\ pc' = IF r.fault = "none" THEN "stream" ELSE "fault"
    /\ ev' = [ev EXCEPT !.op = "Decompress", !.calls = @ + 1,
                        !.ret = r.ret, !.kind = r.kind,
                        !.offset = r.offset,
                        !.bytesBefore = decomp.bytesOutput,
                        !.bsAfter = r.bs]

\* one pass of the while loop of DecompressOodle1
WinDecompress ==
    /\ pc = "stream"
    /\ ev.calls < MaxWinCalls
    /\ WinAdvance(Decompress(input, bs, decomp, output, decomp.bytesOutput, 0))
    /\ UNCHANGED <<input, dec, sect, drv, output>>

NextWin ==
    \/ WinInitialize
    \/ WinDecompress

SpecWin == InitWin /\ [][NextWin]_vars

\* the bucket that the next Decompress call decodes with off1024Decoder
\* (line 196), or -1 when the call decodes a literal or a decoder leaves its
\* vectors before: r1k is the result of off1024Decoder, r1 of off1Decoder, rl
\* of the length decoder
BucketResult(r1k) ==
    IF r1k.d.fault # "none" THEN -1 ELSE r1k.sym

BucketAfterOff1(in, dc, r1) ==
    IF r1.d.fault # "none" THEN -1
    ELSE BucketResult(Decode(in, r1.bs, DecoderAt(dc, <<"off1024", 0>>),
                             (Min(dc.windowSize, dc.bytesOutput) \div 1024) + 1))

BucketAfterLen(in, dc, rl) ==
    IF rl.d.fault # "none" \/ rl.sym = 0 THEN -1
    ELSE BucketAfterOff1(in, dc,
            Decode(in, rl.bs, DecoderAt(dc, <<"off1", 0>>), dc.offset1AlphabetSize))

OffsetBucket(in, b, dc) ==
    BucketAfterLen(in, dc,
        Decode(in, b, DecoderAt(dc, <<"len", dc.lastRepeatCode>>), 65))

\* C25: the bucket off1k that off1024Decoder decodes in a back-reference is
\* always an index 0..255 into the 256 off4Decoders.
OffsetBucketInRange ==
    pc = "stream" => OffsetBucket(input, bs, decomp) \in -1..255

----------------------------------------------------------------------------
(* Repeat applied to a buffer: a back-reference with a valid offset        *)
(* (1 <= offset <= p) whose bytes all lie inside the buffer.               *)

\* length of the buffer, and the bytes it holds
BufLen == 5
BufBytes == {0, 1, 2}

RepEvent(op, pre, p, offset, length) ==
    [op |-> op, pre |-> pre, p |-> p, offset |-> offset, length |-> length]

InitRep ==
    /\ output \in [0..(BufLen - 1) -> BufBytes]
    /\ pc = "buffer"
    /\ ev = RepEvent("none", output, 0, 0, 0)
    /\ input = [prefix |-> <<>>, filler |-> <<0, 0>>, len |-> 0]
    /\ bs = BsConstruct(input)
    /\ dec = DecoderNew
    /\ sect = NoSect
    /\ drv = NoDrv
    /\ decomp = NoDecomp

RepRepeat ==
    /\ pc = "buffer"
    /\ \E p \in 1..(BufLen - 1) :
         \E offset \in 1..p, length \in 1..(BufLen - p) :
            /\ output' = Repeat(output, p, offset, length, 0)
            /\ ev' = RepEvent("Repeat", output, p, offset, length)
    /\ pc' = "copied"
    /\ UNCHANGED <<input, bs, dec, sect, drv, decomp>>

NextRep == RepRepeat

SpecRep == InitRep /\ [][NextRep]_vars

\* C8: after Repeat(offset o, length n) at position p, output[p+k] =
\* output[p+k-o] for every k in 0..n-1, which is the byte that was at
\* p - o + (k mod o) before the copy; the bytes outside p..p+n-1 are the
\* bytes from before the copy.
OverlappingCopy ==
    ev.op = "Repeat" =>
        /\ \A k \in 0..(ev.length - 1) :
             /\ output[ev.p + k] = output[ev.p + k - ev.offset]
             /\ output[ev.p + k] = ev.pre[ev.p - ev.offset + (k % ev.offset)]
        /\ \A i \in DOMAIN output :
             (i < ev.p \/ i >= ev.p + ev.length) => output[i] = ev.pre[i]

\* an overlapping copy (offset < length) over bytes that differed: a byte
\* written earlier in the same copy was read again
OverlapWitness ==
    /\ ev.op = "Repeat"
    /\ ev.offset < ev.length
    /\ ev.pre[ev.p] # ev.pre[ev.p - ev.offset]
    /\ output[ev.p + ev.offset] # ev.pre[ev.p]

====
